---------------------------- MODULE Spec2Model ----------------------------
(***************************************************************************)
(* HEIC2any: the TaskManager (core/tasks.py), the jobs it mutates          *)
(* (core/state.py), their cancellation tokens (core/cancellation.py) and   *)
(* the UI operations that drive them (ui/main_window.py).                  *)
(*                                                                         *)
(* Threads of the program:                                                 *)
(*   - the caller (the Qt UI thread) runs set_threads/start/pause/resume/  *)
(*     stop one at a time; each is split at the points where a worker can  *)
(*     interleave (a lock section, a queue operation, a field write);      *)
(*   - every pool thread runs _worker_loop.                                *)
(* Job indices are those of the code (0-based).                            *)
(***************************************************************************)
EXTENDS Integers, Sequences, FiniteSets, Bags, TLC

\* ----------------------------------------------------------------- bounds
MaxJobs == 2
MaxThreads == 2
MaxWorkers == 2
MaxOps == 5
MaxCapacity == 1
RestartOps == 3
MaxBusCalls == 4
MaxDepth == 2

\* -------------------------------------------------------------- constants
WAITING == "WAITING"
RUNNING == "RUNNING"
PAUSED == "PAUSED"
COMPLETED == "COMPLETED"
FAILED == "FAILED"
CANCELLED == "CANCELLED"

JobStatus == {WAITING, RUNNING, PAUSED, COMPLETED, FAILED, CANCELLED}

Terminal == {COMPLETED, FAILED, CANCELLED}

NoError == "None"
ErrMsg == "err"

\* EventType (ALL_DONE is never published or subscribed to by the program).
JOB_UPDATED == "JOB_UPDATED"
OVERALL_UPDATED == "OVERALL_UPDATED"
EventTypes == {JOB_UPDATED, OVERALL_UPDATED}

\* The handlers, by what they do when invoked: return, raise an exception,
\* subscribe a further handler to the type being published, publish an
\* OVERALL_UPDATED on the same bus.
Handlers == {"plain", "raises", "subscribes", "publishes"}

\* The threads that call into the bus.
BusThreads == {"t1", "t2"}

VARIABLES
    jobs,        \* the job list shared by the UI and the manager: 0..n-1 -> JobItem
    threads,     \* TaskManager._threads
    capacity,    \* TaskManager._queue_capacity
    queueCapacity, \* the queue_capacity given to __init__ (0: not given)
    executor,    \* 0: _executor is None; n > 0: a pool with max_workers = n
    qAlive,      \* _queue is not None
    queue,       \* the indices in _queue (<< >> when there is no queue)
    paused,      \* _paused.is_set()
    stop,        \* _stop.is_set()
    buffer,      \* _paused_buffer
    jobsRef,     \* _jobs_ref is not None (it is always the UI's list)
    workers,     \* the live worker loops: a bag of [pc, idx, pre]
    cpc,         \* the caller's position
    ci,          \* the caller's loop index (start's enumerate)
    cidx,        \* the caller's local idx (resume), -1 when unset
    drained,     \* pause's local list
    ops,         \* the number of calls the caller has made
    enq,         \* history: the indices ever pushed onto a queue
    cycle,       \* history: pause() was called and no start() or stop() since,
                 \* up to the end of the next resume()
    created,     \* history: the start() call in progress created the pool
    pub,         \* the events the last step published on the bus, in order
    ranAtStop,   \* history: the jobs that were RUNNING when stop() was last called
                 \* (none once start() is called again)
    stoppedJobs, \* history: the jobs a stop() call cancelled while no worker held them
    lastPub,     \* history: per job, the status of the last JOB_UPDATED published for it
    signal,      \* the job_update emission queued for the UI thread: NoSignal, or the
                 \* index it carries (with the job itself) and, as history, the
                 \* status the job had when the event was published
    shown,       \* the index and status the UI slot last read from an emission
    subs,        \* EventBus._subs: event type -> the handlers, in registration order
    busLock,     \* EventBus._lock: "free" or the thread that holds it
    stack,       \* per thread, its calls into the bus, the innermost last
    bcalls       \* the number of calls made into the bus from outside it

taskVars == <<jobs, threads, capacity, queueCapacity, executor, qAlive, queue, paused, stop,
              buffer, jobsRef, workers, cpc, ci, cidx, drained, ops, enq, cycle, created,
              pub, ranAtStop, stoppedJobs, lastPub, signal, shown>>

busVars == <<subs, busLock, stack, bcalls>>

vars == <<taskVars, busVars>>

mgrVars == <<threads, capacity, executor, qAlive, queue, paused, stop, buffer, jobsRef>>

callerVars == <<cpc, ci, cidx, drained>>

\* ---------------------------------------------------------------- helpers
NJobs == Cardinality(DOMAIN jobs)

Max(a, b) == IF a >= b THEN a ELSE b

Range(s) == {s[k] : k \in 1..Len(s)}

InRange(idx) == 0 <= idx /\ idx < NJobs

NewJob == [status |-> WAITING, progress |-> 0, error |-> NoError, token |-> FALSE]

\* A worker loop at its while test, holding no index.
Idle == [pc |-> "loop", idx |-> -1, pre |-> FALSE]

Live == BagCardinality(workers)

\* The worker loops that hold index i (dequeued, not yet done with it).
Holders(i) == BagCardinality([w \in {x \in BagToSet(workers) : x.idx = i} |-> workers[w]])

SetJob(i, st, pr, er) ==
    [jobs EXCEPT ![i] = [status |-> st, progress |-> pr, error |-> er, token |-> jobs[i].token]]


\* _emit_job(idx, job): the JOB_UPDATED event carries the index and the job,
\* read here as the status the job has when it is published.
JobUpdated(i, st) == [type |-> "JOB_UPDATED", index |-> i, status |-> st]

\* _emit_overall(): the OVERALL_UPDATED event has an empty payload.
OverallUpdated == [type |-> "OVERALL_UPDATED", index |-> -1, status |-> "None"]

\* No job_update emission is queued; the UI slot has read none.
NoSignal == [index |-> -1, status |-> "None"]

\* No JOB_UPDATED was published for the job yet.
NoEvent == "NoEvent"

\* Per job of js, the status of the last JOB_UPDATED published for it once the
\* events evs are published after those summed up in lp.
Published(lp, evs, js) ==
    [i \in DOMAIN js |->
        LET ks == {k \in 1..Len(evs) : evs[k].type = "JOB_UPDATED" /\ evs[k].index = i}
        IN IF ks # {} THEN evs[CHOOSE k \in ks : \A j \in ks : j <= k].status
           ELSE IF i \in DOMAIN lp THEN lp[i]
           ELSE NoEvent]


\* -------------------------------------------------------------------- Init
\* TaskManager.__init__(threads, queue_capacity): queue_capacity 0 stands for
\* "not given" (the UI's call), and then the capacity is twice the threads.
\* The UI may have appended jobs (all fresh) before the first call.
QueueCapacity(t, qc) == Max(1, IF qc = 0 THEN t * 2 ELSE qc)

FreshJobs(n) == [i \in 0..(n - 1) |-> NewJob]

Init ==
    /\ jobs \in {FreshJobs(n) : n \in 0..MaxJobs}
    /\ threads \in {Max(1, t) : t \in 0..MaxThreads}
    /\ queueCapacity \in 0..MaxCapacity
    /\ capacity = QueueCapacity(threads, queueCapacity)
    /\ executor = 0
    /\ qAlive = FALSE
    /\ queue = << >>
    /\ paused = FALSE
    /\ stop = FALSE
    /\ buffer = << >>
    /\ jobsRef = FALSE
    /\ workers = EmptyBag
    /\ cpc = "idle"
    /\ ci = 0
    /\ cidx = -1
    /\ drained = << >>
    /\ ops = 0
    /\ enq = {}
    /\ cycle = FALSE
    /\ created = FALSE
    /\ pub = << >>
    /\ ranAtStop = {}
    /\ stoppedJobs = {}
    /\ lastPub = [i \in DOMAIN jobs |-> NoEvent]
    /\ signal = NoSignal
    /\ shown = NoSignal
    /\ subs = [t \in EventTypes |-> <<"plain">>]
    /\ busLock = "free"
    /\ stack = [th \in BusThreads |-> << >>]
    /\ bcalls = 0

\* ------------------------------------------------------- the UI's job list
\* MainWindow._append_jobs: a new JobItem (status WAITING, a fresh token) is
\* appended to the list the manager holds a reference to.
AddJob ==
    /\ cpc = "idle"
    /\ ops < MaxOps
    /\ ops' = ops + 1
    /\ UNCHANGED <<enq, cycle>>
    /\ NJobs < MaxJobs
    /\ jobs' = [i \in 0..NJobs |-> IF i < NJobs THEN jobs[i] ELSE NewJob]
    /\ UNCHANGED <<mgrVars, workers, callerVars>>
    /\ UNCHANGED created
    /\ pub' = << >>
    /\ UNCHANGED ranAtStop
    /\ UNCHANGED stoppedJobs
    /\ lastPub' = Published(lastPub, pub', jobs')
    /\ UNCHANGED <<queueCapacity, signal, shown, busVars>>

\* MainWindow._retry_failed: every FAILED job back to WAITING.
RetryFailed ==
    /\ cpc = "idle"
    /\ ops < MaxOps
    /\ ops' = ops + 1
    /\ UNCHANGED <<enq, cycle>>
    /\ \E i \in DOMAIN jobs : jobs[i].status = FAILED
    /\ jobs' = [i \in DOMAIN jobs |->
                  IF jobs[i].status = FAILED
                  THEN [jobs[i] EXCEPT !.status = WAITING, !.error = NoError, !.progress = 0]
                  ELSE jobs[i]]
    /\ UNCHANGED <<mgrVars, workers, callerVars>>
    /\ UNCHANGED created
    /\ pub' = << >>
    /\ UNCHANGED ranAtStop
    /\ UNCHANGED stoppedJobs
    /\ lastPub' = Published(lastPub, pub', jobs')
    /\ UNCHANGED <<queueCapacity, signal, shown, busVars>>

\* ------------------------------------------------------------- set_threads
\* set_threads that also resizes a running pool.
SetThreadsResizesPool(n) ==
    /\ cpc = "idle"
    /\ ops < MaxOps
    /\ ops' = ops + 1
    /\ UNCHANGED <<enq, cycle, created>>
    /\ threads' = Max(1, n)
    /\ executor' = IF executor # 0 THEN Max(1, n) ELSE executor
    /\ UNCHANGED <<jobs, capacity, qAlive, queue, paused, stop, buffer,
                   jobsRef, workers, callerVars>>
    /\ pub' = << >>
    /\ UNCHANGED ranAtStop
    /\ UNCHANGED stoppedJobs
    /\ lastPub' = Published(lastPub, pub', jobs')
    /\ UNCHANGED <<queueCapacity, signal, shown, busVars>>

SetThreads(n) ==
    /\ cpc = "idle"
    /\ ops < MaxOps
    /\ ops' = ops + 1
    /\ UNCHANGED <<enq, cycle>>
    /\ threads' = Max(1, n)
    /\ UNCHANGED <<jobs, capacity, executor, qAlive, queue, paused, stop, buffer,
                   jobsRef, workers, callerVars>>
    /\ UNCHANGED created
    /\ pub' = << >>
    /\ UNCHANGED ranAtStop
    /\ UNCHANGED stoppedJobs
    /\ lastPub' = Published(lastPub, pub', jobs')
    /\ UNCHANGED <<queueCapacity, signal, shown, busVars>>

\* ------------------------------------------------------------------- start
\* The workers start() submits: one _worker_loop per pool thread.
Spawned(n) == workers (+) [x \in {Idle} |-> n]

\* start() that gives every job a new token when it creates a pool.
StartBeginNewTokens ==
    /\ cpc = "idle"
    /\ ops < MaxOps
    /\ ops' = ops + 1
    /\ UNCHANGED enq
    /\ cycle' = FALSE
    /\ jobsRef' = TRUE
    /\ IF executor = 0
       THEN /\ Live + threads <= MaxWorkers
            /\ paused' = FALSE
            /\ stop' = FALSE
            /\ executor' = threads
            /\ qAlive' = TRUE
            /\ queue' = << >>
            /\ workers' = Spawned(threads)
            /\ jobs' = [i \in DOMAIN jobs |-> [jobs[i] EXCEPT !.token = FALSE]]
       ELSE /\ paused' = FALSE
            /\ UNCHANGED <<stop, executor, qAlive, queue, workers, jobs>>
    /\ cpc' = "fill"
    /\ ci' = 0
    /\ UNCHANGED <<threads, capacity, buffer, cidx, drained>>
    /\ created' = (executor = 0)
    /\ pub' = << >>
    /\ ranAtStop' = {}
    /\ UNCHANGED stoppedJobs
    /\ lastPub' = Published(lastPub, pub', jobs')
    /\ UNCHANGED <<queueCapacity, signal, shown, busVars>>

\* Lines 56-65, under the lock.  A new pool is created only while the live worker
\* loops stay within MaxWorkers (the model's bound on threads).
StartBegin ==
    /\ cpc = "idle"
    /\ ops < MaxOps
    /\ ops' = ops + 1
    /\ UNCHANGED enq
    /\ cycle' = FALSE
    /\ jobsRef' = TRUE
    /\ IF executor = 0
       THEN /\ Live + threads <= MaxWorkers
            /\ paused' = FALSE
            /\ stop' = FALSE
            /\ executor' = threads
            /\ qAlive' = TRUE
            /\ queue' = << >>
            /\ workers' = Spawned(threads)
       ELSE /\ paused' = FALSE
            /\ UNCHANGED <<stop, executor, qAlive, queue, workers>>
    /\ cpc' = "fill"
    /\ ci' = 0
    /\ UNCHANGED <<jobs, threads, capacity, buffer, cidx, drained>>
    /\ created' = (executor = 0)
    /\ pub' = << >>
    /\ ranAtStop' = {}
    /\ UNCHANGED stoppedJobs
    /\ lastPub' = Published(lastPub, pub', jobs')
    /\ UNCHANGED <<queueCapacity, signal, shown, busVars>>

\* The statuses the fill loop skips (line 72).
StartSkips == {COMPLETED, RUNNING, CANCELLED}

\* Lines 69-73: the loop head, the stop test and the status test.
FillCheck ==
    /\ cpc = "fill"
    /\ UNCHANGED <<ops, enq, cycle>>
    /\ IF ci >= NJobs \/ stop
       THEN cpc' = "idle" /\ ci' = 0
       ELSE IF jobs[ci].status \in StartSkips
            THEN cpc' = "fill" /\ ci' = ci + 1
            ELSE cpc' = "fill_mark" /\ ci' = ci
    /\ UNCHANGED <<jobs, mgrVars, workers, cidx, drained>>
    /\ created' = (created /\ cpc' # "idle")
    /\ pub' = << >>
    /\ UNCHANGED ranAtStop
    /\ UNCHANGED stoppedJobs
    /\ lastPub' = Published(lastPub, pub', jobs')
    /\ UNCHANGED <<queueCapacity, signal, shown, busVars>>

\* Lines 75-77: mark WAITING (and publish) unless PAUSED.
FillMark ==
    /\ cpc = "fill_mark"
    /\ UNCHANGED <<ops, enq, cycle>>
    /\ jobs' = IF jobs[ci].status # PAUSED
               THEN [jobs EXCEPT ![ci].status = WAITING]
               ELSE jobs
    /\ cpc' = "fill_put"
    /\ UNCHANGED <<mgrVars, workers, ci, cidx, drained>>
    /\ UNCHANGED created
    /\ pub' = IF jobs[ci].status # PAUSED THEN <<JobUpdated(ci, WAITING)>> ELSE << >>
    /\ UNCHANGED ranAtStop
    /\ UNCHANGED stoppedJobs
    /\ lastPub' = Published(lastPub, pub', jobs')
    /\ UNCHANGED <<queueCapacity, signal, shown, busVars>>

\* Line 79: put(idx, timeout=0.1) finds room.
FillPut ==
    /\ cpc = "fill_put"
    /\ UNCHANGED <<ops, cycle>>
    /\ qAlive
    /\ Len(queue) < capacity
    /\ queue' = Append(queue, ci)
    /\ enq' = enq \cup {ci}
    /\ cpc' = "fill"
    /\ ci' = ci + 1
    /\ UNCHANGED <<jobs, threads, capacity, executor, qAlive, paused, stop, buffer,
                   jobsRef, workers, cidx, drained>>
    /\ UNCHANGED created
    /\ pub' = << >>
    /\ UNCHANGED ranAtStop
    /\ UNCHANGED stoppedJobs
    /\ lastPub' = Published(lastPub, pub', jobs')
    /\ UNCHANGED <<queueCapacity, signal, shown, busVars>>

\* Lines 80-83: the queue stayed full for the whole timeout (queue.Full): the
\* loop ends if stopping or pausing, and otherwise goes on with the next job.
FillPutTimeout ==
    /\ cpc = "fill_put"
    /\ UNCHANGED <<ops, enq, cycle>>
    /\ ~qAlive \/ Len(queue) >= capacity
    /\ IF stop \/ paused
       THEN cpc' = "idle" /\ ci' = 0
       ELSE cpc' = "fill" /\ ci' = ci + 1
    /\ UNCHANGED <<jobs, mgrVars, workers, cidx, drained>>
    /\ created' = (created /\ cpc' # "idle")
    /\ pub' = << >>
    /\ UNCHANGED ranAtStop
    /\ UNCHANGED stoppedJobs
    /\ lastPub' = Published(lastPub, pub', jobs')
    /\ UNCHANGED <<queueCapacity, signal, shown, busVars>>

\* ------------------------------------------------------------------- pause
\* Lines 87-92.
PauseBegin ==
    /\ cpc = "idle"
    /\ ops < MaxOps
    /\ ops' = ops + 1
    /\ UNCHANGED enq
    /\ cycle' = TRUE
    /\ paused' = TRUE
    /\ cpc' = IF ~qAlive \/ ~jobsRef THEN "idle" ELSE "pause_drain"
    /\ UNCHANGED <<jobs, threads, capacity, executor, qAlive, queue, stop, buffer,
                   jobsRef, workers, ci, cidx, drained>>
    /\ UNCHANGED created
    /\ pub' = << >>
    /\ UNCHANGED ranAtStop
    /\ UNCHANGED stoppedJobs
    /\ lastPub' = Published(lastPub, pub', jobs')
    /\ UNCHANGED <<queueCapacity, signal, shown, busVars>>

\* Lines 93-101: get_nowait until queue.Empty, then (under the lock) the
\* drained indices are appended to the pause buffer.
PauseDrain ==
    /\ UNCHANGED <<ops, enq, cycle>>
    /\ cpc = "pause_drain"
    /\ drained' = queue
    /\ queue' = << >>
    /\ buffer' = buffer \o queue
    /\ cpc' = "pause_mark"
    /\ UNCHANGED <<jobs, threads, capacity, executor, qAlive, paused, stop,
                   jobsRef, workers, ci, cidx>>
    /\ UNCHANGED created
    /\ pub' = << >>
    /\ UNCHANGED ranAtStop
    /\ UNCHANGED stoppedJobs
    /\ lastPub' = Published(lastPub, pub', jobs')
    /\ UNCHANGED <<queueCapacity, signal, shown, busVars>>

\* The job list after lines 102-106: every drained index in range is PAUSED.
PauseMarked ==
    [i \in DOMAIN jobs |->
        IF i \in Range(drained) THEN [jobs[i] EXCEPT !.status = PAUSED] ELSE jobs[i]]

PauseMark ==
    /\ cpc = "pause_mark"
    /\ UNCHANGED <<ops, enq, cycle>>
    /\ jobs' = PauseMarked
    /\ drained' = << >>
    /\ cpc' = "idle"
    /\ UNCHANGED <<mgrVars, workers, ci, cidx>>
    /\ UNCHANGED created
    /\ pub' = [k \in 1..Len(drained) |-> JobUpdated(drained[k], PAUSED)]
    /\ UNCHANGED ranAtStop
    /\ UNCHANGED stoppedJobs
    /\ lastPub' = Published(lastPub, pub', jobs')
    /\ UNCHANGED <<queueCapacity, signal, shown, busVars>>

\* ------------------------------------------------------------------ resume
\* Lines 109-113.
ResumeBegin ==
    /\ cpc = "idle"
    /\ ops < MaxOps
    /\ ops' = ops + 1
    /\ UNCHANGED enq
    /\ cycle' = (cycle /\ qAlive)
    /\ paused' = FALSE
    /\ cpc' = IF ~qAlive THEN "idle" ELSE "resume_pop"
    /\ UNCHANGED <<jobs, threads, capacity, executor, qAlive, queue, stop, buffer,
                   jobsRef, workers, ci, cidx, drained>>
    /\ UNCHANGED created
    /\ pub' = << >>
    /\ UNCHANGED ranAtStop
    /\ UNCHANGED stoppedJobs
    /\ lastPub' = Published(lastPub, pub', jobs')
    /\ UNCHANGED <<queueCapacity, signal, shown, busVars>>

\* Lines 115-120, under the lock: pop(0), or leave when the buffer is empty.
ResumePop ==
    /\ cpc = "resume_pop"
    /\ UNCHANGED <<ops, enq>>
    /\ cycle' = (cycle /\ buffer # << >>)
    /\ IF buffer # << >>
       THEN cidx' = Head(buffer) /\ buffer' = Tail(buffer) /\ cpc' = "resume_put"
       ELSE cidx' = -1 /\ buffer' = buffer /\ cpc' = "idle"
    /\ UNCHANGED <<jobs, threads, capacity, executor, qAlive, queue, paused, stop,
                   jobsRef, workers, ci, drained>>
    /\ UNCHANGED created
    /\ pub' = << >>
    /\ UNCHANGED ranAtStop
    /\ UNCHANGED stoppedJobs
    /\ lastPub' = Published(lastPub, pub', jobs')
    /\ UNCHANGED <<queueCapacity, signal, shown, busVars>>

\* Line 122: put(idx, timeout=0.1) finds room.
ResumePut ==
    /\ cpc = "resume_put"
    /\ UNCHANGED <<ops, cycle>>
    /\ Len(queue) < capacity
    /\ queue' = Append(queue, cidx)
    /\ enq' = enq \cup {cidx}
    /\ cidx' = -1
    /\ cpc' = "resume_pop"
    /\ UNCHANGED <<jobs, threads, capacity, executor, qAlive, paused, stop, buffer,
                   jobsRef, workers, ci, drained>>
    /\ UNCHANGED created
    /\ pub' = << >>
    /\ UNCHANGED ranAtStop
    /\ UNCHANGED stoppedJobs
    /\ lastPub' = Published(lastPub, pub', jobs')
    /\ UNCHANGED <<queueCapacity, signal, shown, busVars>>

\* Lines 123-124: queue.Full after the timeout ends resume().
ResumePutTimeout ==
    /\ cpc = "resume_put"
    /\ UNCHANGED <<ops, enq>>
    /\ cycle' = FALSE
    /\ Len(queue) >= capacity
    /\ cidx' = -1
    /\ cpc' = "idle"
    /\ UNCHANGED <<jobs, mgrVars, workers, ci, drained>>
    /\ UNCHANGED created
    /\ pub' = << >>
    /\ UNCHANGED ranAtStop
    /\ UNCHANGED stoppedJobs
    /\ lastPub' = Published(lastPub, pub', jobs')
    /\ UNCHANGED <<queueCapacity, signal, shown, busVars>>

\* -------------------------------------------------------------------- stop
\* Line 127.
StopBegin ==
    /\ cpc = "idle"
    /\ ops < MaxOps
    /\ ops' = ops + 1
    /\ UNCHANGED enq
    /\ cycle' = FALSE
    /\ stop' = TRUE
    /\ paused' = FALSE
    /\ cpc' = "stop_cancel"
    /\ UNCHANGED <<jobs, threads, capacity, executor, qAlive, queue, buffer,
                   jobsRef, workers, ci, cidx, drained>>
    /\ UNCHANGED created
    /\ pub' = << >>
    /\ ranAtStop' = {i \in DOMAIN jobs : jobs[i].status = RUNNING}
    /\ UNCHANGED stoppedJobs
    /\ lastPub' = Published(lastPub, pub', jobs')
    /\ UNCHANGED <<queueCapacity, signal, shown, busVars>>

\* CancellationToken.cancel on every job of _jobs_ref (lines 129-134).
Cancelled(js) == [i \in DOMAIN js |-> [js[i] EXCEPT !.token = TRUE]]

\* stop() that cancels only the tokens of the jobs that have not begun.
StopCancelPendingOnly ==
    /\ cpc = "stop_cancel"
    /\ UNCHANGED <<ops, enq, cycle, created>>
    /\ jobs' = [i \in DOMAIN jobs |->
                  IF jobsRef /\ jobs[i].status \in {WAITING, PAUSED}
                  THEN [jobs[i] EXCEPT !.token = TRUE]
                  ELSE jobs[i]]
    /\ cpc' = "stop_drain"
    /\ UNCHANGED <<mgrVars, workers, ci, cidx, drained>>
    /\ pub' = << >>
    /\ UNCHANGED ranAtStop
    /\ stoppedJobs' = stoppedJobs \cup (IF jobsRef THEN {i \in DOMAIN jobs : Holders(i) = 0} ELSE {})
    /\ lastPub' = Published(lastPub, pub', jobs')
    /\ UNCHANGED <<queueCapacity, signal, shown, busVars>>

StopCancel ==
    /\ cpc = "stop_cancel"
    /\ UNCHANGED <<ops, enq, cycle>>
    /\ jobs' = IF jobsRef THEN Cancelled(jobs) ELSE jobs
    /\ cpc' = "stop_drain"
    /\ UNCHANGED <<mgrVars, workers, ci, cidx, drained>>
    /\ UNCHANGED created
    /\ pub' = << >>
    /\ UNCHANGED ranAtStop
    /\ stoppedJobs' = stoppedJobs \cup (IF jobsRef THEN {i \in DOMAIN jobs : Holders(i) = 0} ELSE {})
    /\ lastPub' = Published(lastPub, pub', jobs')
    /\ UNCHANGED <<queueCapacity, signal, shown, busVars>>

\* Lines 136-142: the queue's indices are thrown away.
StopDrain ==
    /\ cpc = "stop_drain"
    /\ UNCHANGED <<ops, enq, cycle>>
    /\ queue' = << >>
    /\ cpc' = "stop_down"
    /\ UNCHANGED <<jobs, threads, capacity, executor, qAlive, paused, stop, buffer,
                   jobsRef, workers, ci, cidx, drained>>
    /\ UNCHANGED created
    /\ pub' = << >>
    /\ UNCHANGED ranAtStop
    /\ UNCHANGED stoppedJobs
    /\ lastPub' = Published(lastPub, pub', jobs')
    /\ UNCHANGED <<queueCapacity, signal, shown, busVars>>

\* stop() without line 152: the pause buffer is not cleared.
StopTeardownKeepsBuffer ==
    /\ UNCHANGED <<ops, enq, cycle>>
    /\ cpc = "stop_down"
    /\ executor' = 0
    /\ qAlive' = FALSE
    /\ queue' = << >>
    /\ cpc' = "idle"
    /\ UNCHANGED <<jobs, threads, capacity, paused, stop, buffer, jobsRef, workers, ci, cidx, drained>>
    /\ UNCHANGED created
    /\ pub' = << >>
    /\ UNCHANGED ranAtStop
    /\ UNCHANGED stoppedJobs
    /\ lastPub' = Published(lastPub, pub', jobs')
    /\ UNCHANGED <<queueCapacity, signal, shown, busVars>>

\* Lines 143-152, under the lock: shutdown(wait=False), no executor, no queue,
\* an empty pause buffer.  Running worker loops are not interrupted.
StopTeardown ==
    /\ cpc = "stop_down"
    /\ UNCHANGED <<ops, enq, cycle>>
    /\ executor' = 0
    /\ qAlive' = FALSE
    /\ queue' = << >>
    /\ buffer' = << >>
    /\ cpc' = "idle"
    /\ UNCHANGED <<jobs, threads, capacity, paused, stop, jobsRef, workers, ci, cidx, drained>>
    /\ UNCHANGED created
    /\ pub' = << >>
    /\ UNCHANGED ranAtStop
    /\ UNCHANGED stoppedJobs
    /\ lastPub' = Published(lastPub, pub', jobs')
    /\ UNCHANGED <<queueCapacity, signal, shown, busVars>>

\* ------------------------------------------------------------ _worker_loop
\* The bag of workers after worker w returned (or its while test failed).
Exited(w) == workers (-) SetToBag({w})

\* The bag of workers after worker w moved on.
Holding(w, pc, idx, pre) ==
    Exited(w) (+) SetToBag({[pc |-> pc, idx |-> idx, pre |-> pre]})

\* Line 157 (stop is set) or lines 160-163 (no queue, no job list): the loop ends.
WorkerExit(w) ==
    /\ BagIn(w, workers)
    /\ w.pc = "loop"
    /\ UNCHANGED <<ops, enq, cycle>>
    /\ stop \/ ~qAlive \/ ~jobsRef
    /\ workers' = Exited(w)
    /\ UNCHANGED <<jobs, mgrVars, callerVars>>
    /\ UNCHANGED created
    /\ pub' = << >>
    /\ UNCHANGED ranAtStop
    /\ UNCHANGED stoppedJobs
    /\ lastPub' = Published(lastPub, pub', jobs')
    /\ UNCHANGED <<queueCapacity, signal, shown, busVars>>

\* Lines 157-164: q.get(timeout=0.2) returns the head of the queue.  (On
\* queue.Empty the worker is back at the while test: no change of state.)
\* pre records whether the job's token was cancelled when the index was taken.
WorkerGet(w) ==
    /\ BagIn(w, workers)
    /\ w.pc = "loop"
    /\ UNCHANGED <<ops, enq, cycle>>
    /\ ~stop /\ qAlive /\ jobsRef
    /\ queue # << >>
    /\ queue' = Tail(queue)
    /\ workers' = Holding(w, "got", Head(queue),
                          InRange(Head(queue)) /\ jobs[Head(queue)].token)
    /\ UNCHANGED <<jobs, threads, capacity, executor, qAlive, paused, stop, buffer,
                   jobsRef, callerVars>>
    /\ UNCHANGED created
    /\ pub' = << >>
    /\ UNCHANGED ranAtStop
    /\ UNCHANGED stoppedJobs
    /\ lastPub' = Published(lastPub, pub', jobs')
    /\ UNCHANGED <<queueCapacity, signal, shown, busVars>>

\* Lines 169-176: return if stopping; skip an index out of range.
WorkerStopCheck(w) ==
    /\ BagIn(w, workers)
    /\ w.pc = "got"
    /\ UNCHANGED <<ops, enq, cycle>>
    /\ workers' = IF stop THEN Exited(w)
                  ELSE IF ~InRange(w.idx) THEN Holding(w, "loop", -1, FALSE)
                  ELSE Holding(w, "tok", w.idx, w.pre)
    /\ UNCHANGED <<jobs, mgrVars, callerVars>>
    /\ UNCHANGED created
    /\ pub' = << >>
    /\ UNCHANGED ranAtStop
    /\ UNCHANGED stoppedJobs
    /\ lastPub' = Published(lastPub, pub', jobs')
    /\ UNCHANGED <<queueCapacity, signal, shown, busVars>>

\* The worker loop without lines 179-184: the token is not looked at.
WorkerTokenCheckBlind(w) ==
    /\ BagIn(w, workers)
    /\ w.pc = "tok"
    /\ workers' = Holding(w, "run", w.idx, w.pre)
    /\ UNCHANGED <<jobs, mgrVars, callerVars, ops, enq, cycle>>
    /\ UNCHANGED created
    /\ pub' = << >>
    /\ UNCHANGED ranAtStop
    /\ UNCHANGED stoppedJobs
    /\ lastPub' = Published(lastPub, pub', jobs')
    /\ UNCHANGED <<queueCapacity, signal, shown, busVars>>

\* Lines 179-184: a cancelled token makes the job CANCELLED (progress 100,
\* JobUpdated and OverallUpdated published) and the loop continues.
WorkerTokenCheck(w) ==
    /\ BagIn(w, workers)
    /\ w.pc = "tok"
    /\ UNCHANGED <<ops, enq, cycle>>
    /\ LET i == w.idx
       IN IF jobs[i].token
          THEN /\ jobs' = [jobs EXCEPT ![i].status = CANCELLED, ![i].progress = 100]
               /\ workers' = Holding(w, "loop", -1, FALSE)
          ELSE /\ jobs' = jobs
               /\ workers' = Holding(w, "run", i, w.pre)
    /\ UNCHANGED <<mgrVars, callerVars>>
    /\ UNCHANGED created
    /\ pub' = IF jobs[w.idx].token
               THEN <<JobUpdated(w.idx, CANCELLED), OverallUpdated>>
               ELSE << >>
    /\ UNCHANGED ranAtStop
    /\ UNCHANGED stoppedJobs
    /\ lastPub' = Published(lastPub, pub', jobs')
    /\ UNCHANGED <<queueCapacity, signal, shown, busVars>>

\* Lines 187-190: RUNNING, progress 1, no error, JobUpdated published.
WorkerMarkRunning(w) ==
    /\ BagIn(w, workers)
    /\ w.pc = "run"
    /\ UNCHANGED <<ops, enq, cycle>>
    /\ jobs' = SetJob(w.idx, RUNNING, 1, NoError)
    /\ workers' = Holding(w, "conv", w.idx, w.pre)
    /\ UNCHANGED <<mgrVars, callerVars>>
    /\ UNCHANGED created
    /\ pub' = <<JobUpdated(w.idx, RUNNING)>>
    /\ UNCHANGED ranAtStop
    /\ UNCHANGED stoppedJobs
    /\ lastPub' = Published(lastPub, pub', jobs')
    /\ UNCHANGED <<queueCapacity, signal, shown, busVars>>

\* A worker loop that publishes no OVERALL_UPDATED after a conversion returned.
WorkerCompletedNoOverall(w) ==
    /\ BagIn(w, workers)
    /\ w.pc = "conv"
    /\ UNCHANGED <<ops, enq, cycle, created>>
    /\ jobs' = [jobs EXCEPT ![w.idx].progress = 100,
                            ![w.idx].status = COMPLETED]
    /\ workers' = Holding(w, "loop", -1, FALSE)
    /\ UNCHANGED <<mgrVars, callerVars>>
    /\ pub' = <<JobUpdated(w.idx, COMPLETED)>>
    /\ UNCHANGED ranAtStop
    /\ UNCHANGED stoppedJobs
    /\ lastPub' = Published(lastPub, pub', jobs')
    /\ UNCHANGED <<queueCapacity, signal, shown, busVars>>

\* Lines 191-212 and 218-219: convert_one returns.
WorkerCompleted(w) ==
    /\ BagIn(w, workers)
    /\ w.pc = "conv"
    /\ UNCHANGED <<ops, enq, cycle>>
    /\ jobs' = [jobs EXCEPT ![w.idx].progress = 100,
                            ![w.idx].status = COMPLETED]
    /\ workers' = Holding(w, "loop", -1, FALSE)
    /\ UNCHANGED <<mgrVars, callerVars>>
    /\ UNCHANGED created
    /\ pub' = <<JobUpdated(w.idx, COMPLETED), OverallUpdated>>
    /\ UNCHANGED ranAtStop
    /\ UNCHANGED stoppedJobs
    /\ lastPub' = Published(lastPub, pub', jobs')
    /\ UNCHANGED <<queueCapacity, signal, shown, busVars>>

\* A worker loop that the exception of a conversion ends.
WorkerFailedEndsLoop(w) ==
    /\ BagIn(w, workers)
    /\ w.pc = "conv"
    /\ UNCHANGED <<ops, enq, cycle, created>>
    /\ jobs' = [jobs EXCEPT ![w.idx].status = FAILED,
                            ![w.idx].error = ErrMsg,
                            ![w.idx].progress = 100]
    /\ workers' = Exited(w)
    /\ UNCHANGED <<mgrVars, callerVars>>
    /\ pub' = <<JobUpdated(w.idx, FAILED), OverallUpdated>>
    /\ UNCHANGED ranAtStop
    /\ UNCHANGED stoppedJobs
    /\ lastPub' = Published(lastPub, pub', jobs')
    /\ UNCHANGED <<queueCapacity, signal, shown, busVars>>

\* Lines 213-219: convert_one (or build_output_path) raises.
WorkerFailed(w) ==
    /\ BagIn(w, workers)
    /\ w.pc = "conv"
    /\ UNCHANGED <<ops, enq, cycle>>
    /\ jobs' = [jobs EXCEPT ![w.idx].status = FAILED,
                            ![w.idx].error = ErrMsg,
                            ![w.idx].progress = 100]
    /\ workers' = Holding(w, "loop", -1, FALSE)
    /\ UNCHANGED <<mgrVars, callerVars>>
    /\ UNCHANGED created
    /\ pub' = <<JobUpdated(w.idx, FAILED), OverallUpdated>>
    /\ UNCHANGED ranAtStop
    /\ UNCHANGED stoppedJobs
    /\ lastPub' = Published(lastPub, pub', jobs')
    /\ UNCHANGED <<queueCapacity, signal, shown, busVars>>

\* ---------------------------------------------------------- specifications
WorkerStep(w) ==
    \/ WorkerExit(w)
    \/ WorkerGet(w)
    \/ WorkerStopCheck(w)
    \/ WorkerTokenCheck(w)
    \/ WorkerMarkRunning(w)
    \/ WorkerCompleted(w)
    \/ WorkerFailed(w)

SomeWorkerExit == \E w \in BagToSet(workers) : WorkerExit(w)

SomeWorkerGet == \E w \in BagToSet(workers) : WorkerGet(w)

SomeWorkerStopCheck == \E w \in BagToSet(workers) : WorkerStopCheck(w)

SomeWorkerTokenCheck == \E w \in BagToSet(workers) : WorkerTokenCheck(w)

SomeWorkerMarkRunning == \E w \in BagToSet(workers) : WorkerMarkRunning(w)

SomeWorkerCompleted == \E w \in BagToSet(workers) : WorkerCompleted(w)

SomeWorkerFailed == \E w \in BagToSet(workers) : WorkerFailed(w)

Next ==
    \/ AddJob
    \/ RetryFailed
    \/ \E n \in 0..MaxThreads : SetThreads(n)
    \/ StartBegin
    \/ FillCheck
    \/ FillMark
    \/ FillPut
    \/ FillPutTimeout
    \/ PauseBegin
    \/ PauseDrain
    \/ PauseMark
    \/ ResumeBegin
    \/ ResumePop
    \/ ResumePut
    \/ ResumePutTimeout
    \/ StopBegin
    \/ StopCancel
    \/ StopDrain
    \/ StopTeardown
    \/ SomeWorkerExit
    \/ SomeWorkerGet
    \/ SomeWorkerStopCheck
    \/ SomeWorkerTokenCheck
    \/ SomeWorkerMarkRunning
    \/ SomeWorkerCompleted
    \/ SomeWorkerFailed

Spec == Init /\ [][Next]_vars

\* One start() on a manager with no pool and no pause() or stop() after it:
\* the caller thread and every worker thread keep being scheduled, and every
\* conversion returns.
WorkerStates == [pc : {"loop", "got", "tok", "run", "conv"}, idx : -1..(MaxJobs - 1), pre : BOOLEAN]

FillStep ==
    \/ FillCheck
    \/ FillMark
    \/ FillPut
    \/ FillPutTimeout

LiveNext ==
    \/ ops = 0 /\ StartBegin
    \/ FillStep
    \/ SomeWorkerGet
    \/ SomeWorkerStopCheck
    \/ SomeWorkerTokenCheck
    \/ SomeWorkerMarkRunning
    \/ SomeWorkerCompleted
    \/ SomeWorkerFailed

SpecLive ==
    /\ Init
    /\ [][LiveNext]_vars
    /\ WF_vars(FillStep)
    /\ \A w \in WorkerStates : WF_vars(WorkerStep(w))

\* start() and stop() calls only (at most RestartOps of them): the caller
\* finishes the call it is in, every worker thread keeps being scheduled and
\* every conversion returns.
StopStep ==
    \/ StopCancel
    \/ StopDrain
    \/ StopTeardown

RestartNext ==
    \/ ops < RestartOps /\ StartBegin
    \/ FillStep
    \/ ops < RestartOps /\ StopBegin
    \/ StopStep
    \/ SomeWorkerExit
    \/ SomeWorkerGet
    \/ SomeWorkerStopCheck
    \/ SomeWorkerTokenCheck
    \/ SomeWorkerMarkRunning
    \/ SomeWorkerCompleted
    \/ SomeWorkerFailed

SpecRestart ==
    /\ Init
    /\ [][RestartNext]_vars
    /\ WF_vars(FillStep)
    /\ WF_vars(StopStep)
    /\ \A w \in WorkerStates : WF_vars(WorkerStep(w))

\* ------------------------------------------------------------ the UI bridge
\* main_window.py 330: the handler the UI subscribes to JOB_UPDATED emits the
\* Qt signal job_update with the payload's index and job object, from the
\* thread that published.  Every event is emitted; the model follows one
\* emission at a time, any one of the events of the last step.
JobUpdateEmit ==
    /\ signal = NoSignal
    /\ \E k \in 1..Len(pub) :
          /\ pub[k].type = "JOB_UPDATED"
          /\ signal' = [index |-> pub[k].index, status |-> pub[k].status]
    /\ pub' = << >>
    /\ UNCHANGED <<jobs, mgrVars, workers, callerVars, ops, enq, cycle, created,
                   ranAtStop, stoppedJobs, lastPub, shown, queueCapacity, busVars>>

\* MainWindow._on_job_update(job_index, job), run by the UI thread between its
\* own calls: it reads the status from the job object it was handed.
OnJobUpdate ==
    /\ signal # NoSignal
    /\ cpc = "idle"
    /\ shown' = [index |-> signal.index, status |-> jobs[signal.index].status]
    /\ signal' = NoSignal
    /\ pub' = << >>
    /\ UNCHANGED <<jobs, mgrVars, workers, callerVars, ops, enq, cycle, created,
                   ranAtStop, stoppedJobs, lastPub, queueCapacity, busVars>>

\* One start() and the workers, observed through the UI bridge.
ObserveNext ==
    \/ ops = 0 /\ StartBegin
    \/ FillStep
    \/ SomeWorkerGet
    \/ SomeWorkerStopCheck
    \/ SomeWorkerTokenCheck
    \/ SomeWorkerMarkRunning
    \/ SomeWorkerCompleted
    \/ SomeWorkerFailed
    \/ JobUpdateEmit
    \/ OnJobUpdate

SpecObserve == Init /\ [][ObserveNext]_vars

\* ---------------------------------------------------------------- EventBus
\* A call of a thread into the bus: subscribe(etype, h) or publish(etype, _).
\* handlers is publish's local list; log is the handlers it has invoked so far
\* (its position in the for loop is the length of log); atCall records the
\* handlers subscribed to the type when publish was called.
SubscribeFrame(t, h) ==
    [op |-> "subscribe", pc |-> "lock", etype |-> t, h |-> h,
     handlers |-> << >>, log |-> << >>, atCall |-> << >>]

PublishFrame(t) ==
    [op |-> "publish", pc |-> "lock", etype |-> t, h |-> "plain",
     handlers |-> << >>, log |-> << >>, atCall |-> subs[t]]

Top(th) == stack[th][Len(stack[th])]

Push(th, f) == [stack EXCEPT ![th] = Append(@, f)]

Pop(th) == [stack EXCEPT ![th] = SubSeq(@, 1, Len(@) - 1)]

SetTop(th, f) == [stack EXCEPT ![th][Len(stack[th])] = f]

\* The state after EventBus.__init__: no subscriptions, the lock free.  (The
\* task manager is not started.)
InitBus ==
    /\ jobs = FreshJobs(0)
    /\ threads = 1
    /\ queueCapacity = 0
    /\ capacity = QueueCapacity(1, 0)
    /\ executor = 0
    /\ qAlive = FALSE
    /\ queue = << >>
    /\ paused = FALSE
    /\ stop = FALSE
    /\ buffer = << >>
    /\ jobsRef = FALSE
    /\ workers = EmptyBag
    /\ cpc = "idle"
    /\ ci = 0
    /\ cidx = -1
    /\ drained = << >>
    /\ ops = 0
    /\ enq = {}
    /\ cycle = FALSE
    /\ created = FALSE
    /\ pub = << >>
    /\ ranAtStop = {}
    /\ stoppedJobs = {}
    /\ lastPub = [i \in DOMAIN jobs |-> NoEvent]
    /\ signal = NoSignal
    /\ shown = NoSignal
    /\ subs = [t \in EventTypes |-> << >>]
    /\ busLock = "free"
    /\ stack = [th \in BusThreads |-> << >>]
    /\ bcalls = 0

\* A thread outside the bus calls subscribe(t, h).
CallSubscribe(th, t, h) ==
    /\ stack[th] = << >>
    /\ bcalls < MaxBusCalls
    /\ bcalls' = bcalls + 1
    /\ stack' = Push(th, SubscribeFrame(t, h))
    /\ UNCHANGED <<subs, busLock, taskVars>>

\* A thread outside the bus calls publish(t, payload).
CallPublish(th, t) ==
    /\ stack[th] = << >>
    /\ bcalls < MaxBusCalls
    /\ bcalls' = bcalls + 1
    /\ stack' = Push(th, PublishFrame(t))
    /\ UNCHANGED <<subs, busLock, taskVars>>

\* Lines 35 and 41: "with self._lock" is entered when the lock is free.
BusAcquire(th) ==
    /\ stack[th] # << >>
    /\ Top(th).pc = "lock"
    /\ busLock = "free"
    /\ busLock' = th
    /\ stack' = SetTop(th, [Top(th) EXCEPT !.pc = "held"])
    /\ UNCHANGED <<subs, bcalls, taskVars>>

\* Line 36: setdefault(etype, []).append(handler); the lock is released and
\* subscribe returns.
SubscribeAppend(th) ==
    /\ stack[th] # << >>
    /\ Top(th).op = "subscribe" /\ Top(th).pc = "held"
    /\ subs' = [subs EXCEPT ![Top(th).etype] = Append(@, Top(th).h)]
    /\ busLock' = "free"
    /\ stack' = Pop(th)
    /\ UNCHANGED <<bcalls, taskVars>>

\* publish as it would be if it took the handlers of every type.
PublishCopyAnyType(th) ==
    /\ stack[th] # << >>
    /\ Top(th).op = "publish" /\ Top(th).pc = "held"
    /\ stack' = SetTop(th, [Top(th) EXCEPT !.pc = "loop",
                                           !.handlers = subs[JOB_UPDATED] \o subs[OVERALL_UPDATED]])
    /\ busLock' = "free"
    /\ UNCHANGED <<subs, bcalls, taskVars>>

\* publish as it would be if the for loop ran inside "with self._lock".
PublishCopyKeepsLock(th) ==
    /\ stack[th] # << >>
    /\ Top(th).op = "publish" /\ Top(th).pc = "held"
    /\ stack' = SetTop(th, [Top(th) EXCEPT !.pc = "loop", !.handlers = subs[Top(th).etype]])
    /\ UNCHANGED <<busLock, subs, bcalls, taskVars>>

\* Line 42: handlers = list(self._subs.get(etype, [])); the lock is released.
PublishCopy(th) ==
    /\ stack[th] # << >>
    /\ Top(th).op = "publish" /\ Top(th).pc = "held"
    /\ stack' = SetTop(th, [Top(th) EXCEPT !.pc = "loop", !.handlers = subs[Top(th).etype]])
    /\ busLock' = "free"
    /\ UNCHANGED <<subs, bcalls, taskVars>>

\* The stack of th once handler h, invoked by the frame f on top, has done what
\* it does up to its first call into the bus (or to its end): a plain handler
\* returns; the exception of a raising one is caught (lines 46-48); the others
\* call subscribe or publish.  A publish nested deeper than MaxDepth ends as a
\* RecursionError, which line 46 catches like any other exception.
Invoked(th, f, h) ==
    IF h = "subscribes"
    THEN Append(SubSeq(stack[th], 1, Len(stack[th]) - 1) \o <<f>>, SubscribeFrame(f.etype, "plain"))
    ELSE IF h = "publishes" /\ Len(stack[th]) < MaxDepth
    THEN Append(SubSeq(stack[th], 1, Len(stack[th]) - 1) \o <<f>>, PublishFrame(OVERALL_UPDATED))
    ELSE SubSeq(stack[th], 1, Len(stack[th]) - 1) \o <<f>>

\* publish as it would be without the try/except of lines 44-48: the exception
\* of a raising handler unwinds the call.
PublishInvokePropagates(th) ==
    /\ stack[th] # << >>
    /\ Top(th).op = "publish" /\ Top(th).pc = "loop"
    /\ Len(Top(th).log) < Len(Top(th).handlers)
    /\ LET h == Top(th).handlers[Len(Top(th).log) + 1]
           f == [Top(th) EXCEPT !.log = Append(@, h)]
       IN stack' = IF h = "raises" THEN Pop(th) ELSE [stack EXCEPT ![th] = Invoked(th, f, h)]
    /\ UNCHANGED <<subs, busLock, bcalls, taskVars>>

\* Lines 43-48: the next handler of the local list is invoked.
PublishInvoke(th) ==
    /\ stack[th] # << >>
    /\ Top(th).op = "publish" /\ Top(th).pc = "loop"
    /\ Len(Top(th).log) < Len(Top(th).handlers)
    /\ LET h == Top(th).handlers[Len(Top(th).log) + 1]
           f == [Top(th) EXCEPT !.log = Append(@, h)]
       IN stack' = [stack EXCEPT ![th] = Invoked(th, f, h)]
    /\ UNCHANGED <<subs, busLock, bcalls, taskVars>>

\* The for loop is over: publish returns.
PublishReturn(th) ==
    /\ stack[th] # << >>
    /\ Top(th).op = "publish" /\ Top(th).pc = "loop"
    /\ Len(Top(th).log) = Len(Top(th).handlers)
    /\ stack' = Pop(th)
    /\ UNCHANGED <<subs, busLock, bcalls, taskVars>>

BusStep(th) ==
    \/ BusAcquire(th)
    \/ SubscribeAppend(th)
    \/ PublishCopy(th)
    \/ PublishInvoke(th)
    \/ PublishReturn(th)

BusNext ==
    \/ \E th \in BusThreads, t \in EventTypes, h \in Handlers : CallSubscribe(th, t, h)
    \/ \E th \in BusThreads, t \in EventTypes : CallPublish(th, t)
    \/ \E th \in BusThreads : BusAcquire(th)
    \/ \E th \in BusThreads : SubscribeAppend(th)
    \/ \E th \in BusThreads : PublishCopy(th)
    \/ \E th \in BusThreads : PublishInvoke(th)
    \/ \E th \in BusThreads : PublishReturn(th)

SpecBus == InitBus /\ [][BusNext]_vars

\* ------------------------------------------------------------------ claims
NonTerminal == JobStatus \ Terminal

AllTerminal == \A i \in DOMAIN jobs : jobs[i].status \in Terminal

\* The worker loops inside convert_one.
Converting == BagCardinality([w \in {x \in BagToSet(workers) : x.pc = "conv"} |-> workers[w]])

NRunning == Cardinality({i \in DOMAIN jobs : jobs[i].status = RUNNING})

StopPcs == {"stop_cancel", "stop_drain", "stop_down"}

\* C1: after start(jobs) on a manager with no pool, with no pause() or stop()
\* afterwards and every conversion returning, every job (all are non-terminal
\* at the call) eventually is COMPLETED, FAILED or CANCELLED.
C1_StartedJobsFinish == (ops = 1) ~> AllTerminal

\* C2: while a pool exists, neither the jobs in status RUNNING nor the worker
\* loops inside a conversion outnumber the pool's size.
C2_RunningWithinPool == executor # 0 => (NRunning <= executor /\ Converting <= executor)

\* C3: no job index is held by two worker loops at the same time.
C3_SingleWriter == \A i \in DOMAIN jobs : Holders(i) <= 1

\* C4: the job start() goes on to mark and push is, when start() examines it,
\* not COMPLETED, FAILED or CANCELLED.
C4_StartSkipsTerminal ==
    [][(cpc = "fill" /\ cpc' = "fill_mark") => jobs[ci].status \notin Terminal]_vars

\* C5: a terminal status changes only by the retry action (FAILED to WAITING).
C5_StatusMonotonic ==
    [][RetryFailed \/ \A i \in DOMAIN jobs :
          jobs[i].status \in Terminal => jobs'[i].status = jobs[i].status]_vars

\* C6: once stop() has returned and no worker holds an index any more, every
\* job of the stopped list (its token is cancelled) that had been enqueued is
\* CANCELLED, COMPLETED or FAILED: none is left WAITING or PAUSED.
C6_StopLeavesNoneWaiting ==
    (stop /\ cpc = "idle" /\ \A w \in BagToSet(workers) : w.idx = -1)
        => \A i \in enq : jobs[i].token => jobs[i].status \in Terminal

\* C7: after stop() has returned (the stop flag is set and the caller is not
\* inside stop), no job becomes RUNNING and no conversion begins.
C7_NoNewWorkAfterStop ==
    [][(stop /\ cpc \notin StopPcs) =>
          /\ \A i \in DOMAIN jobs : jobs'[i].status = RUNNING => jobs[i].status = RUNNING
          /\ Converting' <= Converting]_vars

\* The manager after stop(): no pool, no queue, an empty pause buffer, the
\* stop flag set and the pause flag clear.
Stopped == executor = 0 /\ ~qAlive /\ queue = << >> /\ buffer = << >> /\ stop /\ ~paused

\* C8: every stop() ends in the Stopped state; a stop() on a manager that is
\* already Stopped changes nothing of the manager; a start() from the Stopped
\* state creates a pool of `threads` new workers and an empty queue, with the
\* stop and pause flags clear.
C8_StopIdempotent ==
    [][/\ (cpc = "stop_down" /\ cpc' = "idle") => Stopped'
       /\ (Stopped /\ (cpc \in StopPcs \/ cpc' \in StopPcs))
             => (Stopped' /\ UNCHANGED mgrVars)
       /\ (Stopped /\ cpc = "idle" /\ cpc' = "fill")
             => /\ executor' = threads
                /\ qAlive' /\ queue' = << >>
                /\ ~stop' /\ ~paused'
                /\ Live' = Live + threads]_vars

\* C8 witness: a second stop() (the pool of an earlier start() is already
\* gone) is about to run its teardown.
C8_SecondStop == cpc = "stop_down" /\ jobsRef /\ executor = 0 /\ stop

\* The worker loops that hold index i and took it with the token cancelled.
PreHeld(i) ==
    BagCardinality([w \in {x \in BagToSet(workers) : x.idx = i /\ x.pre} |-> workers[w]])

NoPreCancelledRuns == \A w \in BagToSet(workers) : w.pre => w.pc \notin {"run", "conv"}

Pending == Range(queue) \cup Range(buffer) \cup (IF cidx >= 0 THEN {cidx} ELSE {})

\* The indices worker loops hold.
HeldIdx == {w.idx : w \in BagToSet(workers)} \ {-1}

PauseResumePcs == {"pause_drain", "pause_mark", "resume_pop", "resume_put"}

\* C10: no step of a pause() and of the resume() that follows it (no start() in
\* between) drops an index: what was in the queue or the buffer is afterwards
\* in the queue, in the buffer or held by a worker.
C10_NoIndexDropped ==
    [][(cycle /\ (cpc \in PauseResumePcs \/ cpc' \in PauseResumePcs))
          => Pending \subseteq (Pending' \cup HeldIdx')]_vars

\* ------------------------------------------------------------ claims C11-C20
\* The job whose index is held by a worker loop, or that a worker has marked.
Begun(i) == Holders(i) > 0 \/ jobs[i].status \in {RUNNING, COMPLETED}

\* The caller's calls so far were start() and then pause(), and pause() returned.
StartThenPause ==
    /\ ops = 2 /\ cycle /\ paused /\ executor # 0 /\ cpc = "idle"

\* C11: after start(jobs) then pause(), with no job failed, every job is PAUSED,
\* RUNNING or COMPLETED (or in a worker's hands, about to be RUNNING), at most
\* pool-size jobs have begun, and every job that has not begun is in the pause
\* buffer.
C11_PauseAfterStartKeepsAll ==
    (StartThenPause /\ \A i \in DOMAIN jobs : jobs[i].status # FAILED)
        => /\ \A i \in DOMAIN jobs :
                /\ Begun(i) \/ jobs[i].status = PAUSED
                /\ ~Begun(i) => i \in Range(buffer)
           /\ Cardinality({i \in DOMAIN jobs : Begun(i)}) <= executor

\* C12: while a pool exists the queue and the pause buffer together hold at most
\* queue-capacity indices.
C12_BufferedWithinCapacity ==
    executor # 0 => Len(buffer) + Len(queue) <= capacity

FillPcs == {"fill", "fill_mark", "fill_put"}

\* C13: a start() that finds a pool spawns no worker, creates no queue, pushes
\* no index and changes no job's status.
C13_StartOnPoolOnlyClearsFlag ==
    [][/\ (cpc = "idle" /\ cpc' = "fill" /\ executor # 0)
            => (~paused' /\ Live' = Live /\ UNCHANGED <<executor, qAlive, queue, jobs>>)
       /\ (cpc \in FillPcs /\ ~created /\ cpc' # cpc)
            => (Len(queue') <= Len(queue)
                /\ \A i \in DOMAIN jobs : jobs'[i].status = jobs[i].status)]_vars

\* C14: in a start() that created the pool an index that start() is about to
\* push is pushed (at the tail of the queue) before the next job is examined,
\* unless the stop flag or the pause flag is set.
C14_FillPushesEveryMarkedJob ==
    [][(created /\ cpc = "fill_put" /\ cpc' # "fill_put")
            => \/ queue' = Append(queue, ci)
               \/ (stop \/ paused) /\ cpc' = "idle"]_vars

\* The number of times index i occurs in sequence q.
Count(q, i) == Cardinality({k \in 1..Len(q) : q[k] = i})

\* C15: when pause() returns the queue is empty, the drained indices are at the
\* tail of the pause buffer in queue order, each drained job is PAUSED and was
\* published once, and no job that a worker holds (and no job that was not in
\* the queue) was touched.
C15_PauseDrainsAndMarks ==
    [][(cpc = "pause_mark" /\ cpc' = "idle")
            => /\ queue' = << >>
               /\ Len(buffer') >= Len(drained)
               /\ SubSeq(buffer', Len(buffer') - Len(drained) + 1, Len(buffer')) = drained
               /\ \A i \in DOMAIN jobs :
                    /\ i \in Range(drained) => jobs'[i].status = PAUSED
                    /\ Count(drained, i) <= 1
                    /\ (i \notin Range(drained) \/ Holders(i) > 0) => jobs'[i] = jobs[i]]_vars

\* The jobs a worker is about to mark RUNNING: it holds the index and is past
\* the token check, or before it with the token not cancelled.
AboutToRun ==
    {i \in DOMAIN jobs : \E w \in BagToSet(workers) :
        /\ w.idx = i
        /\ w.pc = "run" \/ (w.pc \in {"got", "tok"} /\ ~jobs[i].token)}

\* C16: while the pause flag is set and pause() is past its drain, the queue is
\* empty, no worker takes an index, and the jobs still to become RUNNING (their
\* indices taken before the drain) are at most pool-size many.
C16_IdleWhilePaused ==
    [][(paused /\ executor # 0 /\ cpc # "pause_drain")
            => /\ queue = << >>
               /\ HeldIdx' \subseteq HeldIdx
               /\ Cardinality(AboutToRun) <= executor]_vars

\* C17: resume() clears the pause flag, pops the buffer from its head, puts every
\* popped index at the tail of the queue, and returns only with the buffer empty.
C17_ResumeRefillsInOrder ==
    [][/\ (cpc = "idle" /\ cpc' \in {"resume_pop", "resume_put"}) => ~paused'
       /\ (cpc = "resume_pop" /\ cpc' = "resume_put") => cidx' = Head(buffer)
       /\ (cpc = "resume_put" /\ cpc' # "resume_put")
            => (queue' = Append(queue, cidx) /\ cpc' = "resume_pop")
       /\ (cpc \in {"resume_pop", "resume_put"} /\ cpc' = "idle") => buffer' = << >>]_vars

\* C18: no index in the queue refers to a PAUSED job once resume() has returned,
\* and no job goes from PAUSED to RUNNING in one step.
C18_ResumeMarksWaiting ==
    [][/\ (cpc \in {"resume_pop", "resume_put"} /\ cpc' = "idle")
            => \A i \in Range(queue') : jobs'[i].status # PAUSED
       /\ \A i \in DOMAIN jobs :
            jobs[i].status = PAUSED => jobs'[i].status # RUNNING]_vars

\* C19: a change of the thread count changes neither the pool, the worker
\* loops, the queue, the buffer nor the jobs; worker loops are added and a pool
\* size is set only by a start() that finds no pool, and that pool has the
\* thread count set last.
C19_SetThreadsForNextPool ==
    [][/\ threads' # threads => UNCHANGED <<executor, workers, qAlive, queue, buffer, jobs>>
       /\ (executor' # executor /\ executor' # 0)
            => (executor = 0 /\ cpc = "idle" /\ cpc' = "fill" /\ executor' = threads)
       /\ Live' > Live => (executor = 0 /\ Live' = Live + threads)]_vars

\* A pool is running whose size differs from the thread count set since.
C19_ThreadsSetWhileRunning ==
    executor # 0 /\ threads # executor /\ Live > 0 /\ cpc = "idle"

\* The worker loops at their while test.
AtLoop == CopiesIn(Idle, workers)

\* C20: the step that makes a job FAILED changes no other job, ends no worker
\* loop and leaves the worker that ran the job at its while test.
C20_FailureIsolated ==
    [][\A i \in DOMAIN jobs :
         (jobs[i].status # FAILED /\ jobs'[i].status = FAILED)
            => /\ \A j \in DOMAIN jobs \ {i} : jobs'[j] = jobs[j]
               /\ jobs'[i].error = ErrMsg /\ jobs'[i].progress = 100
               /\ Live' = Live
               /\ AtLoop' = AtLoop + 1]_vars

\* After a failure the only worker loop has gone on with a later job.
C20_WentOnAfterFailure ==
    /\ Live = 1 /\ executor = 1 /\ ops = 1
    /\ \E i, j \in DOMAIN jobs :
         i < j /\ jobs[i].status = FAILED /\ jobs[j].status \in {RUNNING, COMPLETED}

\* ------------------------------------------------------------ claims C21-C30
\* C21: a job becomes COMPLETED only from RUNNING and then has progress 100 and
\* no error; a job becomes FAILED only from RUNNING and then has progress 100
\* and the error's message.
C21_TerminalFields ==
    [][\A i \in DOMAIN jobs :
         /\ (jobs[i].status # COMPLETED /\ jobs'[i].status = COMPLETED)
              => /\ jobs[i].status = RUNNING
                 /\ jobs'[i].progress = 100 /\ jobs'[i].error = NoError
         /\ (jobs[i].status # FAILED /\ jobs'[i].status = FAILED)
              => /\ jobs[i].status = RUNNING
                 /\ jobs'[i].progress = 100 /\ jobs'[i].error = ErrMsg]_vars

\* C23: when stop() returns the stop flag is set, the pause flag is clear and
\* the token of every job of the list given to start() is cancelled.
C23_StopCancelsEveryToken ==
    [][(cpc = "stop_down" /\ cpc' = "idle")
            => /\ stop' /\ ~paused'
               /\ jobsRef => \A i \in DOMAIN jobs : jobs'[i].token]_vars

\* stop() has returned and a job that is RUNNING, and one that is COMPLETED or
\* FAILED, have cancelled tokens.
C23_StoppedWithRunningJob ==
    /\ stop /\ cpc = "idle" /\ executor = 0
    /\ \E i, j \in DOMAIN jobs :
         /\ jobs[i].status = RUNNING /\ jobs[i].token
         /\ jobs[j].status \in {COMPLETED, FAILED} /\ jobs[j].token

\* C26: a cancelled token stays cancelled in every step, and cancelling again
\* changes nothing.
C26_TokenSetOnce ==
    [][/\ \A i \in DOMAIN jobs : jobs[i].token => jobs'[i].token
       /\ Cancelled(Cancelled(jobs)) = Cancelled(jobs)]_vars

\* A new pool is at work on a job whose token an earlier stop() cancelled.
C26_CancelledUnderNewPool ==
    /\ executor # 0 /\ ~stop
    /\ \E i \in DOMAIN jobs :
         jobs[i].token /\ (i \in Range(queue) \/ Holders(i) > 0)

\* C30: a job that becomes CANCELLED has no error.
C30_CancelledWithoutError ==
    [][\A i \in DOMAIN jobs :
         (jobs[i].status # CANCELLED /\ jobs'[i].status = CANCELLED)
            => jobs'[i].error = NoError]_vars

\* C25: the worker loops of a stopped pool exit: from some point on the live
\* worker loops are no more than the size of the pool that exists then (none
\* when there is no pool).
C25_StoppedWorkersExit == <>[](Live <= executor)

C24_StopLetsRunningFinish ==
    [][\A i \in ranAtStop :
         jobs[i].status = RUNNING
            => /\ jobs'[i].status \in {RUNNING, COMPLETED, FAILED}
               /\ jobs'[i].status # RUNNING
                    => pub' = <<JobUpdated(i, jobs'[i].status), OverallUpdated>>]_vars

IsPrefix(a, b) == Len(a) <= Len(b) /\ SubSeq(b, 1, Len(a)) = a

\* The step is the return of the publish call on top of th's stack.
Returns(th) ==
    /\ stack[th] # << >>
    /\ Top(th).op = "publish"
    /\ stack'[th] = SubSeq(stack[th], 1, Len(stack[th]) - 1)

\* C27: when publish(t, _) returns it has invoked, once each and in the order
\* of registration, the handlers subscribed to t when it took its copy, which
\* include every handler subscribed to t when it was called, and nothing that
\* is not subscribed to t.
C27_PublishInvokesSubscribersInOrder ==
    [][\A th \in BusThreads :
          Returns(th) =>
              /\ IsPrefix(Top(th).atCall, Top(th).log)
              /\ IsPrefix(Top(th).log, subs[Top(th).etype])]_vars

C27_PublishedToTwo ==
    \E th \in BusThreads :
        /\ stack[th] # << >>
        /\ Top(th).op = "publish" /\ Top(th).pc = "loop"
        /\ Len(Top(th).atCall) = 2
        /\ Top(th).log = Top(th).atCall
        /\ \E t \in EventTypes \ {Top(th).etype} :
               \E k \in 1..Len(subs[t]) : \A j \in 1..Len(Top(th).log) : Top(th).log[j] # subs[t][k]

C29_HandlersRunOutsideLock ==
    /\ [](\A th \in BusThreads :
            /\ busLock = th => stack[th] # << >> /\ Top(th).pc = "held"
            /\ stack[th] # << >> /\ Top(th).pc # "lock" => ENABLED BusStep(th)
            /\ stack[th] # << >> /\ Top(th).pc = "lock" =>
                   /\ busLock # th
                   /\ busLock = "free" \/ \E o \in BusThreads : busLock = o /\ ENABLED BusStep(o))
    /\ [][\A th \in BusThreads :
            /\ \A k \in 1..Len(stack[th]) :
                   (k <= Len(stack'[th]) /\ stack[th][k].op = "publish" /\ stack[th][k].pc = "loop")
                       => /\ stack'[th][k].handlers = stack[th][k].handlers
                          /\ IsPrefix(stack'[th][k].log, stack[th][k].handlers)
            /\ ( /\ stack[th] # << >>
                 /\ Top(th).op = "publish" /\ Top(th).pc = "held"
                 /\ stack'[th] # stack[th] )
               => stack'[th][Len(stack[th])].handlers = subs[Top(th).etype]]_vars

C29_ReentryAndConcurrency ==
    \E th \in BusThreads : \E o \in BusThreads \ {th} :
        /\ Len(stack[th]) = 1
        /\ stack[th][1].op = "publish" /\ stack[th][1].pc = "loop"
        /\ stack[th][1].log = stack[th][1].handlers
        /\ \E k \in 1..Len(stack[th][1].log) : stack[th][1].log[k] = "subscribes"
        /\ Len(subs[stack[th][1].etype]) > Len(stack[th][1].handlers)
        /\ stack[o] # << >>
        /\ Top(o).op = "publish" /\ Top(o).pc = "loop"
        /\ Top(o).log # << >>

\* C32: a start() that creates a pool of n workers creates a queue of capacity
\* 2n, unless a capacity was given at construction.
C32_CapacityTwicePool ==
    [][(cpc = "idle" /\ cpc' = "fill" /\ executor = 0 /\ queueCapacity = 0)
          => capacity' = 2 * executor']_vars

\* C33: every job index occurs at most once in all across the queue, the
\* pause buffer and the indices held by the workers.
C33_NoDuplicateIndex ==
    \A i \in DOMAIN jobs : Count(queue, i) + Count(buffer, i) + Holders(i) <= 1

\* C35: the job a worker is converting is RUNNING, and exactly one worker
\* holds the index of a job that is RUNNING.
C35_StatusAgreesWithOwnership ==
    /\ \A w \in BagToSet(workers) : w.pc = "conv" => jobs[w.idx].status = RUNNING
    /\ \A i \in DOMAIN jobs : jobs[i].status = RUNNING => Holders(i) = 1

\* The step takes a job that stop() cancelled nowhere but to WAITING (start's
\* mark, the retry), PAUSED or CANCELLED, and no worker is about to convert it.
StoppedJobsNeverRun ==
    /\ \A i \in stoppedJobs :
          jobs'[i].status # jobs[i].status => jobs'[i].status \in {WAITING, PAUSED, CANCELLED}
    /\ \A w \in BagToSet(workers') : w.idx \in stoppedJobs => w.pc \notin {"run", "conv"}

C36_WaitingRunningDone ==
    [][\A k \in 1..Len(pub') :
          pub'[k].type = "JOB_UPDATED" =>
              /\ pub'[k].status = RUNNING => lastPub[pub'[k].index] \in {WAITING, PAUSED}
              /\ pub'[k].status \in {COMPLETED, FAILED} => lastPub[pub'[k].index] = RUNNING]_vars

\* C31: what the UI slot reads from the job of a JOB_UPDATED payload is the
\* status the job had when the event was published.
C31_PayloadIsSnapshot ==
    [][(signal # NoSignal /\ signal' = NoSignal) => shown' = signal]_vars

====
